---- MODULE Spec2Model ----
(***************************************************************************)
(* The gesture screen of the Abracadabra app: the BLE notification handler *)
(* (handleBLEData), the session state it keeps in React state, the local   *)
(* summary (analyzeGesture) and the submission of recorded samples to the  *)
(* inference endpoint (GestureAPI).                                        *)
(*                                                                         *)
(* React state is modelled as variables.  A function of the component sees *)
(* the state of the render that created it: the notification handler is    *)
(* registered once, by connectToDevice, so everything it READS directly    *)
(* (currentSession, sessionData, connectedDevice) is the snapshot held in  *)
(* `closure`, while its functional updates (setX(prev => ...)) and its     *)
(* plain sets act on the live state.                                       *)
(***************************************************************************)
EXTENDS Integers, Sequences, FiniteSets, TLC

VARIABLES
    now,                      \* Date.now(), a logical clock
    foundDevice,              \* useState foundDevice (a device was found)
    connectedDevice,          \* useState connectedDevice: Null or <<id>>
    connectionStatus,         \* useState connectionStatus
    notificationSubscription, \* useState notificationSubscription
    monitoring,               \* the native monitor of the data characteristic is live
    closure,                  \* the render snapshot the registered callbacks read
    currentSession,           \* useState currentSession: Null or <<session>>
    sessionData,              \* useState sessionData
    latestDataPoint,          \* useState latestDataPoint
    sessionHistory,           \* useState sessionHistory
    totalPacketsReceived,     \* useState totalPacketsReceived
    lastDataTime,             \* useState lastDataTime
    realtimeData,             \* useState realtimeData
    isAnalyzing,              \* useState isAnalyzing
    lastAnalysisResult,       \* useState lastAnalysisResult
    timers,                   \* setTimeout(..., 500) callbacks not yet run
    requests,                 \* inference requests in flight
    isRecording,              \* useState isRecording (src/app/(tabs)/index.tsx)
    isScanning,               \* useState isScanning
    deviceScan,               \* the device scan of the BLE manager is running
    scanTimeout,              \* the scan's setTimeout(..., 20000): Null or <<render>>
    bluetoothCheck,           \* the call of checkBluetoothState under way
    out,                      \* what the last step showed or logged
    stream                    \* observer: what the device has sent so far

vars == <<now, foundDevice, connectedDevice, connectionStatus,
          notificationSubscription, monitoring,
          closure, currentSession, sessionData, latestDataPoint, sessionHistory,
          totalPacketsReceived, lastDataTime, realtimeData, isAnalyzing,
          lastAnalysisResult, timers, requests, isRecording, isScanning,
          deviceScan, scanTimeout, bluetoothCheck, out, stream>>

-----------------------------------------------------------------------------
(* Bounds of the model. *)

\* notifications the device sends in one run of the whole screen
MaxPackets == 2
\* packets the device sends in one run of the packet stream
MaxStreamPackets == 5
\* ticks of the clock
MaxNow == 2
\* inference requests in flight at once
MaxInFlight == 1
\* samples the device sends in one run of the graph buffer
MaxGraphPackets == 52
\* queries of the adapter state that one call of checkBluetoothState may make
MaxQueries == 6
\* samples the device sends in one run of the summary and the serialization
MaxSamples == 3
\* notifications in one run of many recordings
MaxHistoryPackets == 12
\* notifications in one run of a recording among bad packets
MaxDisturbedPackets == 4
\* packets the device sends in one run of the inference client
MaxInferencePackets == 3

-----------------------------------------------------------------------------
(* Values. *)

Null == <<>>
Some(x) == <<x>>

\* endTime?: number, when absent
NoTime == 0

\* a JS number n/d
Div(n, d) == [num |-> n, den |-> d]

-----------------------------------------------------------------------------
(* base64, as atob decodes it: a text is a sequence of symbol codes, 0..63 *)
(* for the alphabet and Pad for '='.                                       *)

Pad == 64

RECURSIVE Btoa(_)
Btoa(bytes) ==
    IF Len(bytes) = 0 THEN <<>>
    ELSE IF Len(bytes) = 1 THEN
        <<bytes[1] \div 4, (bytes[1] % 4) * 16, Pad, Pad>>
    ELSE IF Len(bytes) = 2 THEN
        <<bytes[1] \div 4, (bytes[1] % 4) * 16 + bytes[2] \div 16,
          (bytes[2] % 16) * 4, Pad>>
    ELSE
        <<bytes[1] \div 4, (bytes[1] % 4) * 16 + bytes[2] \div 16,
          (bytes[2] % 16) * 4 + bytes[3] \div 64, bytes[3] % 64>>
        \o Btoa(SubSeq(bytes, 4, Len(bytes)))

\* atob accepts the text: whole quads, padding only at the very end
AtobValid(text) ==
    /\ Len(text) % 4 = 0
    /\ \A i \in 1..Len(text) :
          text[i] = Pad =>
             /\ i > Len(text) - 2
             /\ \A j \in i..Len(text) : text[j] = Pad

RECURSIVE Atob(_)
Atob(text) ==
    IF Len(text) = 0 THEN <<>>
    ELSE LET a == text[1]
             b == text[2]
             c == text[3]
             d == text[4]
             b1 == a * 4 + b \div 16
             b2 == (b % 16) * 16 + c \div 4
             b3 == (c % 4) * 64 + d
         IN  IF c = Pad THEN <<b1>>
             ELSE IF d = Pad THEN <<b1, b2>>
             ELSE <<b1, b2, b3>> \o Atob(SubSeq(text, 5, Len(text)))

-----------------------------------------------------------------------------
(* DataView reads, little endian; offsets count from 0 as in the source.   *)

GetUint8(bytes, off) == bytes[off + 1]

GetUint16(bytes, off) == bytes[off + 1] + 256 * bytes[off + 2]

\* a read that takes the 16 bits as unsigned
GetInt16Unsigned(bytes, off) == bytes[off + 1] + 256 * bytes[off + 2]

GetInt16(bytes, off) ==
    LET u == GetUint16(bytes, off)
    IN  IF u >= 32768 THEN u - 65536 ELSE u

GetUint32(bytes, off) ==
    bytes[off + 1] + 256 * bytes[off + 2] + 65536 * bytes[off + 3]
        + 16777216 * bytes[off + 4]

HexDigits == <<"0", "1", "2", "3", "4", "5", "6", "7",
               "8", "9", "a", "b", "c", "d", "e", "f">>

\* Number.prototype.toString(16) of a non-negative integer
RECURSIVE ToString16(_)
ToString16(n) ==
    IF n < 16 THEN HexDigits[n + 1]
    ELSE ToString16(n \div 16) \o HexDigits[(n % 16) + 1]

Digits == <<"0", "1", "2", "3", "4", "5", "6", "7", "8", "9">>

\* String(n) of a non-negative integer
RECURSIVE ToString10(_)
ToString10(n) ==
    IF n < 10 THEN Digits[n + 1]
    ELSE ToString10(n \div 10) \o Digits[(n % 10) + 1]

\* 10 to the power f
RECURSIVE Pow10(_)
Pow10(f) == IF f = 0 THEN 1 ELSE 10 * Pow10(f - 1)

\* a rounding that drops the decimals beyond the f-th
ToFixedTruncating(q, f) ==
    LET a == IF q.num < 0 THEN -q.num ELSE q.num
    IN  [ negative |-> q.num < 0,
          digits   |-> (a * Pow10(f)) \div q.den,
          decimals |-> f ]

\* Number.prototype.toFixed(f) of the number q.num / q.den, q.den > 0: the
\* text, with f decimals, of the nearest multiple of 10^-f (the larger one of
\* two); the text is held as its digits, the point being before the last f
ToFixed(q, f) ==
    LET a == IF q.num < 0 THEN -q.num ELSE q.num
    IN  [ negative |-> q.num < 0,
          digits   |-> (2 * a * Pow10(f) + q.den) \div (2 * q.den),
          decimals |-> f ]

-----------------------------------------------------------------------------
(* The 20-byte BLEPacket the firmware sends, and the notifications the     *)
(* model's device can send.                                                *)

START == 1
DATA == 2
END == 3

\* two bytes of a 16-bit value, little endian (two's complement when negative)
LE16(n) ==
    LET u == IF n < 0 THEN n + 65536 ELSE n
    IN  <<u % 256, u \div 256>>

Frame(type, timestamp, sampleId, acc, gyroXY, tail) ==
    <<type, 0>> \o LE16(timestamp) \o LE16(sampleId)
        \o LE16(acc[1]) \o LE16(acc[2]) \o LE16(acc[3])
        \o LE16(gyroXY[1]) \o LE16(gyroXY[2]) \o tail

\* recording hashes 0x0000ABCD and 0x01020304, as bytes 16..19
HashABCD == <<205, 171, 0, 0>>
Hash1234 == <<4, 3, 2, 1>>

StartABCD == Frame(START, 0, 0, <<0, 0, 0>>, <<0, 0>>, HashABCD)
Start1234 == Frame(START, 7, 0, <<0, 0, 0>>, <<0, 0>>, Hash1234)
\* sample 0 at 0 ms, 1.0 g on X; sample 1 at 1000 ms, -1.0 g on X
Data0 == Frame(DATA, 0, 0, <<1000, 0, 0>>, <<0, 0>>, HashABCD)
Data1 == Frame(DATA, 1000, 1, <<-1000, 0, 0>>, <<15, -15>>, <<10, 0, 0, 0>>)
\* END of a recording of 1000 ms whose last sample is sample 1
End1 == Frame(END, 1000, 1, <<0, 0, 0>>, <<0, 0>>, HashABCD)
Unknown4 == Frame(4, 5, 0, <<0, 0, 0>>, <<0, 0>>, HashABCD)
\* sample 2 at 3 ms and sample 3 at 65535 ms, with the extreme readings
Data2 == Frame(DATA, 3, 2, <<32767, -32768, -1>>, <<-32768, 32767>>, <<255, 255, 0, 0>>)
Data3 == Frame(DATA, 65535, 3, <<500, 1, 0>>, <<-1, 0>>, <<0, 128, 0, 0>>)

\* sample n of a long recording: 4 ms apart, n mg on X
GraphSample(n) == Frame(DATA, (4 * n) % 65536, n, <<n, 0, 0>>, <<0, 0>>, HashABCD)

Frames ==
    { StartABCD, Start1234, Data0, Data1, End1, Unknown4,
      SubSeq(StartABCD, 1, 19),          \* one byte short
      StartABCD \o <<0>> }              \* one byte long

\* a text atob rejects (one symbol, no whole quad)
BadText == <<0>>

Payloads == { Btoa(f) : f \in Frames } \cup { BadText }

\* the packets of recordings alone
SessionPayloads == { Btoa(f) : f \in {StartABCD, Start1234, Data0, Data1, End1} }

\* one recording's packets, an unknown packet and two malformed ones
DisturbedPayloads ==
    { Btoa(f) : f \in {StartABCD, Data1, End1, Unknown4, SubSeq(StartABCD, 1, 19)} }
        \cup { BadText }

\* the STARTs and the END of recordings that hold no samples
EmptyRecordingPayloads == { Btoa(f) : f \in {StartABCD, Start1234, End1} }

\* SENSOR_DATA packets alone
SamplePayloads == { Btoa(f) : f \in {Data0, Data1, Data2, Data3} }

-----------------------------------------------------------------------------
(* handleBLEData: the fields read from the 20 bytes.                       *)

ParsePacket(bytes) ==
    [ packetType    |-> GetUint8(bytes, 0),
      reserved      |-> GetUint8(bytes, 1),
      timestamp     |-> GetUint16(bytes, 2),
      sampleId      |-> GetUint16(bytes, 4),
      accX          |-> Div(GetInt16(bytes, 6), 1000),
      accY          |-> Div(GetInt16(bytes, 8), 1000),
      accZ          |-> Div(GetInt16(bytes, 10), 1000),
      gyroX         |-> Div(GetInt16(bytes, 12), 10),
      gyroY         |-> Div(GetInt16(bytes, 14), 10),
      gyroZ         |-> Div(GetInt16(bytes, 16), 10),
      recordingHash |-> GetUint32(bytes, 16) ]

\* the BLEDataPoint built from a SENSOR_DATA packet
DataPoint(pk) ==
    [ timestamp     |-> pk.timestamp,
      sampleId      |-> pk.sampleId,
      acceleration  |-> [x |-> pk.accX, y |-> pk.accY, z |-> pk.accZ],
      gyroscope     |-> [x |-> pk.gyroX, y |-> pk.gyroY, z |-> pk.gyroZ],
      recordingHash |-> ToString16(pk.recordingHash) ]

\* x*x + y*y + z*z of three numbers with one denominator
SumSquares(v) ==
    Div(v.x.num * v.x.num + v.y.num * v.y.num + v.z.num * v.z.num,
        v.x.den * v.x.den)

\* Math.sqrt(q), kept symbolic
Sqrt(q) == [sqrtOf |-> q]

RealtimePoint(pk, t) ==
    [ time          |-> t,
      accMagnitude  |-> Sqrt(SumSquares([x |-> pk.accX, y |-> pk.accY, z |-> pk.accZ])),
      gyroMagnitude |-> Sqrt(SumSquares([x |-> pk.gyroX, y |-> pk.gyroY, z |-> pk.gyroZ])),
      accX |-> pk.accX, accY |-> pk.accY, accZ |-> pk.accZ,
      gyroX |-> pk.gyroX, gyroY |-> pk.gyroY, gyroZ |-> pk.gyroZ ]

maxGraphPoints == 50

\* a buffer that is never cut
KeepAll(newData) == newData

\* newData.slice(-maxGraphPoints) when longer than maxGraphPoints
KeepLast(newData) ==
    IF Len(newData) > maxGraphPoints
    THEN SubSeq(newData, Len(newData) - maxGraphPoints + 1, Len(newData))
    ELSE newData

\* the same with the hash rendered in decimal
NewSessionDecimal(pk, t, device) ==
    [ id              |-> ToString10(pk.recordingHash),
      startTime       |-> t,
      endTime         |-> NoTime,
      isActive        |-> TRUE,
      deviceId        |-> IF device = Null THEN "unknown" ELSE device[1],
      samplesReceived |-> 0 ]

NewSession(pk, t, device) ==
    [ id              |-> ToString16(pk.recordingHash),
      startTime       |-> t,
      endTime         |-> NoTime,
      isActive        |-> TRUE,
      deviceId        |-> IF device = Null THEN "unknown" ELSE device[1],
      samplesReceived |-> 0 ]

\* currentSession?.isActive
IsActive(session) == session # Null /\ session[1].isActive

-----------------------------------------------------------------------------
(* analyzeGesture: the local summary (the fields that need no square root) *)

\* a summary whose duration is taken modulo 65536
analyzeGestureUnwrapping(data) ==
    IF Len(data) = 0 THEN Null
    ELSE LET totalSamples == Len(data)
             duration == (data[Len(data)].timestamp - data[1].timestamp) % 65536
             samplingRate ==
                 IF duration > 0 /\ totalSamples > 1
                 THEN Div(totalSamples * 1000, duration)
                 ELSE IF totalSamples > 1 THEN Div(totalSamples, 4)
                 ELSE Div(0, 1)
         IN  Some([ totalSamples |-> totalSamples,
                    duration     |-> duration,
                    samplingRate |-> ToFixed(samplingRate, 1) ])

analyzeGesture(data) ==
    IF Len(data) = 0 THEN Null
    ELSE LET totalSamples == Len(data)
             duration == data[Len(data)].timestamp - data[1].timestamp
             samplingRate ==
                 IF duration > 0 /\ totalSamples > 1
                 THEN Div(totalSamples * 1000, duration)
                 ELSE IF totalSamples > 1 THEN Div(totalSamples, 4)
                 ELSE Div(0, 1)
         IN  Some([ totalSamples |-> totalSamples,
                    duration     |-> duration,
                    samplingRate |-> ToFixed(samplingRate, 1) ])

-----------------------------------------------------------------------------
(* GestureAPI.convertBLEDataToAPI                                          *)

ApiPoint(point, index, formattedRecordingId) ==
    [ rel_timestamp |-> IF point.timestamp # 0 THEN point.timestamp ELSE index * 4,
      recording_id  |-> formattedRecordingId,
      acc_x  |-> point.acceleration.x,
      acc_y  |-> point.acceleration.y,
      acc_z  |-> point.acceleration.z,
      gyro_x |-> point.gyroscope.x,
      gyro_y |-> point.gyroscope.y,
      gyro_z |-> point.gyroscope.z ]

convertBLEDataToAPI(bleData, recordingId, t) ==
    LET formattedRecordingId == "g_" \o ToString10(t) \o "_" \o recordingId
    IN  [ i \in 1..Len(bleData) |-> ApiPoint(bleData[i], i - 1, formattedRecordingId) ]

-----------------------------------------------------------------------------
(* GestureAPI.convertToCSV.  A line is a string; the text joined from the  *)
(* lines is held as the sequence of its pieces, lines and "\n" in turn, and *)
(* the empty text is the empty sequence.                                   *)

\* the decimals of frac / den, 0 <= frac < den, den a power of ten
RECURSIVE FractionText(_, _)
FractionText(frac, den) ==
    IF frac = 0 THEN ""
    ELSE Digits[((frac * 10) \div den) + 1] \o FractionText((frac * 10) % den, den)

\* `${q}` of a number q.num / q.den that has finitely many decimals
NumberText(q) ==
    LET a == IF q.num < 0 THEN -q.num ELSE q.num
    IN  (IF q.num < 0 THEN "-" ELSE "")
           \o ToString10(a \div q.den)
           \o (IF a % q.den = 0 THEN "" ELSE "." \o FractionText(a % q.den, q.den))

CsvHeader == "rel_timestamp,recording_id,acc_x,acc_y,acc_z,gyro_x,gyro_y,gyro_z"

CsvRow(point) ==
    ToString10(point.rel_timestamp) \o "," \o point.recording_id
        \o "," \o NumberText(point.acc_x) \o "," \o NumberText(point.acc_y)
        \o "," \o NumberText(point.acc_z) \o "," \o NumberText(point.gyro_x)
        \o "," \o NumberText(point.gyro_y) \o "," \o NumberText(point.gyro_z)

\* lines.join(separator)
RECURSIVE Join(_, _)
Join(lines, separator) ==
    IF Len(lines) = 0 THEN <<>>
    ELSE IF Len(lines) = 1 THEN <<lines[1]>>
    ELSE <<lines[1], separator>> \o Join(Tail(lines), separator)

\* a serialization that leaves the header out
convertToCSVHeaderless(data) ==
    IF Len(data) = 0 THEN <<>>
    ELSE Join([ i \in 1..Len(data) |-> CsvRow(data[i]) ], "\n")

convertToCSV(data) ==
    IF Len(data) = 0 THEN <<>>
    ELSE LET header == CsvHeader
             rows == [ i \in 1..Len(data) |-> CsvRow(data[i]) ]
         IN  Join(<<header>> \o rows, "\n")

-----------------------------------------------------------------------------
(* The state after the component is constructed (first render, not yet     *)
(* connected).                                                             *)

\* what a function created by the current render reads
Snapshot ==
    [ currentSession           |-> currentSession,
      sessionData              |-> sessionData,
      connectedDevice          |-> connectedDevice,
      notificationSubscription |-> notificationSubscription,
      isScanning               |-> isScanning,
      foundDevice              |-> foundDevice ]

Quiet == [alerts |-> <<>>, logs |-> <<>>]

Init ==
    /\ now = 1
    /\ foundDevice = FALSE
    /\ connectedDevice = Null
    /\ connectionStatus = "Disconnected"
    /\ notificationSubscription = Null
    /\ monitoring = FALSE
    /\ closure = [ currentSession |-> Null, sessionData |-> <<>>,
                   connectedDevice |-> Null, notificationSubscription |-> Null,
                   isScanning |-> FALSE, foundDevice |-> FALSE ]
    /\ currentSession = Null
    /\ sessionData = <<>>
    /\ latestDataPoint = Null
    /\ sessionHistory = <<>>
    /\ totalPacketsReceived = 0
    /\ lastDataTime = 0
    /\ realtimeData = <<>>
    /\ isAnalyzing = FALSE
    /\ lastAnalysisResult = Null
    /\ timers = <<>>
    /\ requests = <<>>
    /\ isRecording = FALSE
    /\ isScanning = FALSE
    /\ deviceScan = FALSE
    /\ scanTimeout = Null
    /\ bluetoothCheck = [ pc |-> "idle", retryCount |-> 0, queries |-> 0,
                          answers |-> <<>>, result |-> FALSE ]
    /\ out = Quiet
    /\ stream = [ delivered |-> 0, last |-> [kind |-> "other"], phase |-> "idle",
                  restarted |-> FALSE, start |-> <<>>, sinceStart |-> <<>>,
                  endCount |-> 0, sinceClear |-> <<>> ]

scanVars == <<isScanning, deviceScan, scanTimeout, bluetoothCheck>>
connectionVars == <<foundDevice, connectedDevice, connectionStatus, notificationSubscription,
                    monitoring, closure, scanVars>>
sessionVars == <<currentSession, sessionData, latestDataPoint, sessionHistory,
                 totalPacketsReceived, lastDataTime, realtimeData, isRecording>>
analysisVars == <<isAnalyzing, lastAnalysisResult, timers, requests>>

\* the observer after an event that is no notification
Other == [stream EXCEPT !.last = [kind |-> "other"]]

\* the observer after the data was cleared
Cleared == [stream EXCEPT !.last = [kind |-> "clear"], !.phase = "idle",
                          !.sinceClear = <<>>]

\* time passes
Tick ==
    /\ now < MaxNow
    /\ now' = now + 1
    /\ UNCHANGED <<connectionVars, sessionVars, analysisVars, out, stream>>

-----------------------------------------------------------------------------
(* Scanning and connecting.                                                *)

\* the states bleManager.state() answers with
AdapterStates ==
    {"Unknown", "Resetting", "Unsupported", "Unauthorized", "PoweredOff", "PoweredOn"}

\* a check that asks again whenever the state is 'Unknown'
AfterStateAsking(state, retryCount) ==
    IF state = "PoweredOn" THEN "true"
    ELSE IF state = "Unknown" THEN "retry"
    ELSE "false"

\* what checkBluetoothState does with the state a query returned
AfterState(state, retryCount) ==
    IF state = "PoweredOn" THEN "true"
    ELSE IF state = "Unknown" /\ retryCount < 3 THEN "retry"
    ELSE "false"

\* what its catch does with the error of a query
AfterError(retryCount) == IF retryCount < 2 THEN "retry" ELSE "false"

\* the query has answered: the check waits 1000 ms to ask again, or returns
Settled(answer, decision) ==
    /\ bluetoothCheck' =
          [ bluetoothCheck EXCEPT
              !.pc      = IF decision = "retry" THEN "wait" ELSE "done",
              !.queries = @ + 1,
              !.answers = Append(@, answer),
              !.result  = (decision = "true") ]
    /\ out' = [ alerts |-> <<>>,
                logs |-> <<[msg |-> "Bluetooth state", answer |-> answer]>> ]
    /\ stream' = Other
    /\ UNCHANGED <<now, foundDevice, connectedDevice, connectionStatus,
                   notificationSubscription, monitoring, closure, isScanning,
                   deviceScan, scanTimeout, sessionVars, analysisVars>>

\* startDeviceScan calls checkBluetoothState(bleManager): retryCount is 0
checkBluetoothState ==
    /\ bluetoothCheck.pc \in {"idle", "done"}
    /\ bluetoothCheck' = [ pc |-> "query", retryCount |-> 0, queries |-> 0,
                           answers |-> <<>>, result |-> FALSE ]
    /\ out' = Quiet
    /\ stream' = Other
    /\ UNCHANGED <<now, foundDevice, connectedDevice, connectionStatus,
                   notificationSubscription, monitoring, closure, isScanning,
                   deviceScan, scanTimeout, sessionVars, analysisVars>>

\* await bleManager.state() resolves
stateResolves ==
    /\ bluetoothCheck.pc = "query"
    /\ bluetoothCheck.queries < MaxQueries
    /\ \E state \in AdapterStates :
          Settled(state, AfterState(state, bluetoothCheck.retryCount))

\* await bleManager.state() rejects
stateRejects ==
    /\ bluetoothCheck.pc = "query"
    /\ bluetoothCheck.queries < MaxQueries
    /\ Settled("error", AfterError(bluetoothCheck.retryCount))

\* the 1000 ms are over: checkBluetoothState(bleManager, retryCount + 1)
checkBluetoothStateAgain ==
    /\ bluetoothCheck.pc = "wait"
    /\ bluetoothCheck' = [ bluetoothCheck EXCEPT !.pc = "query",
                                                 !.retryCount = @ + 1 ]
    /\ out' = Quiet
    /\ stream' = Other
    /\ UNCHANGED <<now, foundDevice, connectedDevice, connectionStatus,
                   notificationSubscription, monitoring, closure, isScanning,
                   deviceScan, scanTimeout, sessionVars, analysisVars>>

\* the Retry Scanning button: the scan it starts, and every callback that
\* scan registers, belong to the render that drew the button
retryScanning ==
    /\ ~isScanning
    /\ ~foundDevice
    /\ connectedDevice = Null
    /\ closure' = Snapshot
    /\ isScanning' = TRUE
    /\ deviceScan' = TRUE
    /\ scanTimeout' = Some(Snapshot)
    /\ UNCHANGED bluetoothCheck
    /\ out' = Quiet
    /\ stream' = Other
    /\ UNCHANGED <<now, foundDevice, connectedDevice, connectionStatus, notificationSubscription,
                   monitoring, sessionVars, analysisVars>>

\* the listener of the device scan is called with an error: the scan has
\* failed, and the timer of the scan stays set
scanError ==
    /\ deviceScan
    /\ deviceScan' = FALSE
    /\ isScanning' = FALSE
    /\ out' = [alerts |-> <<>>, logs |-> <<[msg |-> "Scan error"]>>]
    /\ stream' = Other
    /\ UNCHANGED <<now, foundDevice, connectedDevice, connectionStatus,
                   notificationSubscription, monitoring, closure, scanTimeout,
                   bluetoothCheck, sessionVars, analysisVars>>

\* the callback of the scan's setTimeout runs: isScanning and foundDevice
\* are those of the render that started the scan
scanTimeoutFires ==
    /\ scanTimeout # Null
    /\ scanTimeout' = Null
    /\ LET render == scanTimeout[1]
       IN  IF render.isScanning
           THEN /\ deviceScan' = FALSE
                /\ isScanning' = FALSE
                /\ out' = [ alerts |-> IF ~render.foundDevice
                                       THEN <<[title |-> "Device Not Found"]>>
                                       ELSE <<>>,
                            logs |-> <<[msg |-> "Scan timeout"]>> ]
           ELSE /\ UNCHANGED <<deviceScan, isScanning>>
                /\ out' = Quiet
    /\ stream' = [stream EXCEPT !.last = [kind |-> "scan timeout"]]
    /\ UNCHANGED <<now, foundDevice, connectedDevice, connectionStatus,
                   notificationSubscription, monitoring, closure, bluetoothCheck,
                   sessionVars, analysisVars>>

\* the scan finds the device and connectToDevice runs to its end: the data
\* characteristic is monitored with the handler of the scan's render.  The
\* scan is the one under way or, when none is, one the mount effect or the
\* Reconnect button of a callback starts with the same render; its listener
\* stops it and clears its timer before it connects
connectToDevice ==
    /\ connectedDevice = Null
    /\ foundDevice' = TRUE
    /\ isScanning' = FALSE
    /\ deviceScan' = FALSE
    /\ scanTimeout' = Null
    /\ UNCHANGED bluetoothCheck
    /\ connectedDevice' = Some("dev")
    /\ connectionStatus' = "Connected & Ready"
    /\ notificationSubscription' = Some("subscription")
    /\ monitoring' = TRUE
    /\ out' = [alerts |-> <<[title |-> "Connection Successful!"]>>, logs |-> <<>>]
    /\ stream' = Other
    /\ UNCHANGED <<now, closure, sessionVars, analysisVars>>

\* where connectToDevice can throw: the race of the connection with its
\* 15 s timeout, the race of the service discovery with its 10 s timeout,
\* the gesture service or one of its characteristics missing
FailureSteps ==
    {"connect timeout", "discovery timeout", "missing service", "missing characteristic"}

\* the message the catch of connectToDevice shows for the error of a step
FailureMessage(step) ==
    IF step \in {"connect timeout", "discovery timeout"} THEN "Connection timed out"
    ELSE IF step = "missing characteristic" THEN "Device services incompatible"
    ELSE "Gesture service not found"

\* connectToDevice throws at the step: what it had set stays set, and its
\* catch reports the failure
ConnectFails(step) ==
    /\ foundDevice' = TRUE
    /\ connectedDevice' = IF step = "connect timeout" THEN connectedDevice
                          ELSE Some("dev")
    /\ connectionStatus' = "Connection Failed"
    /\ out' = [ alerts |-> <<[title |-> "Connection Failed",
                              message |-> FailureMessage(step)]>>,
                logs |-> <<[msg |-> "Connection error", step |-> step]>> ]
    /\ stream' = Other
    /\ UNCHANGED <<now, notificationSubscription, monitoring, closure, sessionVars,
                   analysisVars>>

\* the scan finds the device and connectToDevice fails
connectToDeviceFails ==
    /\ connectedDevice = Null
    /\ isScanning' = FALSE
    /\ deviceScan' = FALSE
    /\ scanTimeout' = Null
    /\ UNCHANGED bluetoothCheck
    /\ \E step \in FailureSteps : ConnectFails(step)

\* the Retry button of the failure alert: connectToDevice runs again, and
\* fails again or runs to its end
retryConnectToDevice ==
    /\ connectionStatus = "Connection Failed"
    /\ UNCHANGED scanVars
    /\ \/ \E step \in FailureSteps : ConnectFails(step)
       \/ /\ foundDevice' = TRUE
          /\ connectedDevice' = Some("dev")
          /\ connectionStatus' = "Connected & Ready"
          /\ notificationSubscription' = Some("subscription")
          /\ monitoring' = TRUE
          /\ out' = [alerts |-> <<[title |-> "Connection Successful!"]>>, logs |-> <<>>]
          /\ stream' = Other
          /\ UNCHANGED <<now, closure, sessionVars, analysisVars>>

\* connectedDevice.onDisconnected callback, registered by connectToDevice
onDisconnected ==
    /\ connectedDevice # Null
    /\ monitoring' = FALSE
    /\ notificationSubscription' =
          IF closure.notificationSubscription # Null THEN Null
          ELSE notificationSubscription
    /\ connectedDevice' = Null
    /\ connectionStatus' = "Disconnected"
    /\ currentSession' =
          IF IsActive(closure.currentSession) /\ currentSession # Null
          THEN Some([currentSession[1] EXCEPT !.isActive = FALSE])
          ELSE currentSession
    /\ out' = [alerts |-> <<[title |-> "Device Disconnected"]>>, logs |-> <<>>]
    /\ stream' = Other
    /\ UNCHANGED <<now, foundDevice, closure, scanVars, sessionData, latestDataPoint,
                   sessionHistory, totalPacketsReceived, lastDataTime,
                   realtimeData, analysisVars, isRecording>>

clearAllData ==
    /\ sessionHistory' = <<>>
    /\ totalPacketsReceived' = 0
    /\ currentSession' = Null
    /\ latestDataPoint' = Null
    /\ IF notificationSubscription # Null
       THEN /\ monitoring' = FALSE
            /\ notificationSubscription' = Null
       ELSE UNCHANGED <<monitoring, notificationSubscription>>
    /\ out' = Quiet
    /\ stream' = Cleared
    /\ UNCHANGED <<now, foundDevice, connectedDevice, connectionStatus, closure, scanVars,
                   sessionData,
                   lastDataTime, realtimeData, analysisVars, isRecording>>

\* the Disconnect button: the live subscription is removed, the connection
\* is cancelled, and the onDisconnected callback runs; when cancelConnection
\* throws the device stays connected
disconnectDevice ==
    /\ connectedDevice # Null
    /\ notificationSubscription' = Null
    /\ \E cancelled \in BOOLEAN :
          /\ monitoring' = IF cancelled \/ notificationSubscription # Null
                           THEN FALSE ELSE monitoring
          /\ IF cancelled
             THEN /\ connectedDevice' = Null
                  /\ connectionStatus' = "Disconnected"
                  /\ currentSession' =
                        IF IsActive(closure.currentSession) /\ currentSession # Null
                        THEN Some([currentSession[1] EXCEPT !.isActive = FALSE])
                        ELSE currentSession
                  /\ out' = [ alerts |-> <<[title |-> "Device Disconnected"]>>,
                              logs |-> <<>> ]
             ELSE /\ UNCHANGED <<connectedDevice, connectionStatus, currentSession>>
                  /\ out' = [ alerts |-> <<>>,
                              logs |-> <<[msg |-> "Error disconnecting"]>> ]
    /\ stream' = Other
    /\ UNCHANGED <<now, foundDevice, closure, scanVars, sessionData, latestDataPoint,
                   sessionHistory, totalPacketsReceived, lastDataTime,
                   realtimeData, analysisVars, isRecording>>

-----------------------------------------------------------------------------
(* handleBLEData.  It is the handler of the render that started the scan:  *)
(* `closure` is what it reads, the primed variables are what it sets.      *)

\* a size check that lets frames longer than 20 bytes through
TooShort(bytes) == Len(bytes) < 20

\* the size check that follows the base64 decoding
UnexpectedSize(bytes) == Len(bytes) # 20

\* a SESSION_START branch that keeps the samples it finds
HandleStartKeeping(pk) ==
    /\ currentSession' = Some(NewSession(pk, now, closure.connectedDevice))
    /\ sessionData' = sessionData
    /\ lastAnalysisResult' = Null
    /\ isAnalyzing' = FALSE
    /\ out' = [ alerts |-> <<>>,
                logs |-> << [msg |-> "Session start detected",
                             hash |-> ToString16(pk.recordingHash)],
                            [msg |-> "Double tap triggered"] >> ]
    /\ UNCHANGED <<latestDataPoint, sessionHistory, totalPacketsReceived,
                   lastDataTime, realtimeData, timers, requests, isRecording>>

\* a SESSION_START branch that files the session it finds, as it is, in the
\* history
HandleStartArchiving(pk) ==
    /\ currentSession' = Some(NewSession(pk, now, closure.connectedDevice))
    /\ sessionData' = <<>>
    /\ sessionHistory' = IF currentSession = Null THEN sessionHistory
                         ELSE Append(sessionHistory, currentSession[1])
    /\ lastAnalysisResult' = Null
    /\ isAnalyzing' = FALSE
    /\ out' = [ alerts |-> <<>>,
                logs |-> << [msg |-> "Session start detected",
                             hash |-> ToString16(pk.recordingHash)],
                            [msg |-> "Double tap triggered"] >> ]
    /\ UNCHANGED <<latestDataPoint, totalPacketsReceived,
                   lastDataTime, realtimeData, timers, requests, isRecording>>

\* packetType === 0x01, SESSION_START
HandleStart(pk) ==
    /\ currentSession' = Some(NewSession(pk, now, closure.connectedDevice))
    /\ sessionData' = <<>>
    /\ lastAnalysisResult' = Null
    /\ isAnalyzing' = FALSE
    /\ out' = [ alerts |-> <<>>,
                logs |-> << [msg |-> "Session start detected",
                             hash |-> ToString16(pk.recordingHash)],
                            [msg |-> "Double tap triggered"] >> ]
    /\ UNCHANGED <<latestDataPoint, sessionHistory, totalPacketsReceived,
                   lastDataTime, realtimeData, timers, requests, isRecording>>

\* the new sample put first
PrependSample(prev, dataPoint) == <<dataPoint>> \o prev

\* setSessionData(prev => [...prev, dataPoint])
AppendSample(prev, dataPoint) == Append(prev, dataPoint)

\* packetType === 0x02, SENSOR_DATA
HandleData(pk) ==
    /\ latestDataPoint' = Some(DataPoint(pk))
    /\ sessionData' = AppendSample(sessionData, DataPoint(pk))
    /\ lastDataTime' = now
    /\ totalPacketsReceived' = totalPacketsReceived + 1
    /\ realtimeData' = KeepLast(Append(realtimeData, RealtimePoint(pk, now)))
    /\ currentSession' =
          IF IsActive(closure.currentSession) /\ currentSession # Null
          THEN Some([currentSession[1] EXCEPT
                        !.samplesReceived = currentSession[1].samplesReceived + 1])
          ELSE currentSession
    /\ out' = [ alerts |-> <<>>,
                logs |-> IF pk.sampleId % 50 = 0
                         THEN <<[msg |-> "Sample", sampleId |-> pk.sampleId]>>
                         ELSE <<>> ]
    /\ UNCHANGED <<sessionHistory, analysisVars, isRecording>>

\* the summary alert of the SESSION_END branch
SummaryAlert(pk, analysis) ==
    [ title    |-> "Gesture Recording Complete!",
      duration |-> pk.timestamp,
      samples  |-> pk.sampleId + 1,
      analysis |-> analysis ]

\* a SESSION_END branch that schedules the submission whether or not there
\* are samples
HandleEndSubmitting(pk) ==
    LET analysis == analyzeGesture(closure.sessionData)
        recordingId == IF Len(closure.sessionData) > 0
                       THEN closure.sessionData[1].recordingHash ELSE "unknown"
        ended == [msg |-> "Session end detected", duration |-> pk.timestamp,
                  totalSamples |-> pk.sampleId + 1]
    IN  /\ currentSession' =
              IF IsActive(closure.currentSession) /\ currentSession # Null
              THEN Some([currentSession[1] EXCEPT !.endTime = now,
                                                  !.isActive = FALSE])
              ELSE currentSession
        /\ timers' = Append(timers,
               convertBLEDataToAPI(closure.sessionData, recordingId, now))
        /\ out' = [ alerts |-> <<SummaryAlert(pk, analysis)>>,
                    logs |-> <<ended, [msg |-> "Starting gesture analysis..."]>> ]
        /\ UNCHANGED <<sessionData, latestDataPoint, sessionHistory,
                       totalPacketsReceived, lastDataTime, realtimeData,
                       isAnalyzing, lastAnalysisResult, requests, isRecording>>

\* packetType === 0x03, SESSION_END
HandleEnd(pk) ==
    LET analysis == analyzeGesture(closure.sessionData)
        recordingId == closure.sessionData[1].recordingHash
        ended == [msg |-> "Session end detected", duration |-> pk.timestamp,
                  totalSamples |-> pk.sampleId + 1]
    IN  /\ currentSession' =
              IF IsActive(closure.currentSession) /\ currentSession # Null
              THEN Some([currentSession[1] EXCEPT !.endTime = now,
                                                  !.isActive = FALSE])
              ELSE currentSession
        /\ IF Len(closure.sessionData) > 0
           THEN /\ timers' = Append(timers,
                       convertBLEDataToAPI(closure.sessionData, recordingId, now))
                /\ out' = [ alerts |-> <<SummaryAlert(pk, analysis)>>,
                            logs |-> <<ended, [msg |-> "Starting gesture analysis..."]>> ]
           ELSE /\ timers' = timers
                /\ out' = [ alerts |-> <<SummaryAlert(pk, analysis)>>,
                            logs |-> <<ended,
                                       [msg |-> "No session data available for analysis"]>> ]
        /\ UNCHANGED <<sessionData, latestDataPoint, sessionHistory,
                       totalPacketsReceived, lastDataTime, realtimeData,
                       isAnalyzing, lastAnalysisResult, requests, isRecording>>

\* a handler that takes every packet that is neither START nor END for a
\* sample
handleBLEDataDefaulting(base64Data) ==
    IF ~AtobValid(base64Data)
    THEN /\ out' = [alerts |-> <<>>, logs |-> <<[msg |-> "Error parsing BLE data"]>>]
         /\ UNCHANGED <<sessionVars, analysisVars>>
    ELSE LET bytes == Atob(base64Data)
         IN  IF UnexpectedSize(bytes)
             THEN /\ out' = [ alerts |-> <<>>,
                              logs |-> <<[msg |-> "Unexpected packet size",
                                          size |-> Len(bytes)]>> ]
                  /\ UNCHANGED <<sessionVars, analysisVars>>
             ELSE LET pk == ParsePacket(bytes)
                  IN  IF pk.packetType = START THEN HandleStart(pk)
                      ELSE IF pk.packetType = END THEN HandleEnd(pk)
                      ELSE HandleData(pk)

handleBLEData(base64Data) ==
    IF ~AtobValid(base64Data)
    THEN \* atob throws, the catch logs it
         /\ out' = [alerts |-> <<>>, logs |-> <<[msg |-> "Error parsing BLE data"]>>]
         /\ UNCHANGED <<sessionVars, analysisVars>>
    ELSE LET bytes == Atob(base64Data)
         IN  IF UnexpectedSize(bytes)
             THEN /\ out' = [ alerts |-> <<>>,
                              logs |-> <<[msg |-> "Unexpected packet size",
                                          size |-> Len(bytes)]>> ]
                  /\ UNCHANGED <<sessionVars, analysisVars>>
             ELSE LET pk == ParsePacket(bytes)
                  IN  IF pk.packetType = START THEN HandleStart(pk)
                      ELSE IF pk.packetType = DATA THEN HandleData(pk)
                      ELSE IF pk.packetType = END THEN HandleEnd(pk)
                      ELSE /\ out' = Quiet
                           /\ UNCHANGED <<sessionVars, analysisVars>>

\* What the observer notes of a notification.  A frame counts as a packet when
\* it has 20 bytes.  phase: the device is recording (START seen, END not yet),
\* has ended its recording, or neither; restarted: the recording began while
\* the one before it had not ended; start: the START frame of the recording;
\* sinceStart: the DATA frames sent since that START; endCount: how many of
\* them had been sent when the END came; sinceClear: the DATA frames sent
\* since the data was last cleared.
Noted(base64Data) ==
    LET decoded == AtobValid(base64Data)
        bytes == IF decoded THEN Atob(base64Data) ELSE <<>>
        type == IF Len(bytes) = 20 THEN bytes[1] ELSE 0
        closes == type = END /\ stream.phase = "recording"
        last == [ kind |-> "notify", decoded |-> decoded, size |-> Len(bytes),
                  type |-> type, before |-> stream.phase,
                  declared |-> IF Len(bytes) = 20
                               THEN bytes[5] + 256 * bytes[6] + 1 ELSE 0,
                  tail |-> IF Len(bytes) = 20 THEN SubSeq(bytes, 17, 20) ELSE <<>>,
                  frame |-> bytes ]
    IN  [ delivered  |-> stream.delivered + 1,
          last       |-> last,
          phase      |-> IF type = START THEN "recording"
                         ELSE IF closes THEN "ended"
                         ELSE stream.phase,
          restarted  |-> IF type = START THEN stream.phase = "recording"
                         ELSE stream.restarted,
          start      |-> IF type = START THEN bytes ELSE stream.start,
          sinceStart |-> IF type = START THEN <<>>
                         ELSE IF type = DATA /\ stream.phase # "idle"
                              THEN Append(stream.sinceStart, bytes)
                         ELSE stream.sinceStart,
          endCount   |-> IF type = START THEN 0
                         ELSE IF closes THEN Len(stream.sinceStart)
                         ELSE stream.endCount,
          sinceClear |-> IF type = DATA THEN Append(stream.sinceClear, bytes)
                         ELSE stream.sinceClear ]

\* the dataChar.monitor callback: one notification arrives
Monitor(payloads, max) ==
    /\ monitoring
    /\ stream.delivered < max
    /\ \E base64Data \in payloads :
          /\ handleBLEData(base64Data)
          /\ stream' = Noted(base64Data)
    /\ UNCHANGED <<now, connectionVars>>

\* any notification, well formed or not
Notify == Monitor(Payloads, MaxPackets)

\* a packet of a recording
NotifyPacket == Monitor(SessionPayloads, MaxStreamPackets)

\* a packet of a recording, while submissions are made and answered
NotifyRecording == Monitor(SessionPayloads, MaxInferencePackets)

\* a packet of the recording or a bad one
NotifyDisturbed == Monitor(DisturbedPayloads, MaxDisturbedPackets)

\* the START or the END of a recording without samples
NotifyEmptyRecording == Monitor(EmptyRecordingPayloads, MaxHistoryPackets)

\* a sample
NotifySample == Monitor(SamplePayloads, MaxSamples)

\* the next sample of a long recording
NotifyGraphSample == Monitor({Btoa(GraphSample(stream.delivered))}, MaxGraphPackets)

\* analyzeGesture applied to the samples held
Summarize ==
    /\ out' = [ alerts |-> <<>>,
                logs |-> <<[msg |-> "summary", analysis |-> analyzeGesture(sessionData)]>> ]
    /\ stream' = Other
    /\ UNCHANGED <<now, connectionVars, sessionVars, analysisVars>>

-----------------------------------------------------------------------------
(* The recording-indicator revision of the screen, src/app/(tabs)/index.tsx *)
(* (its definitions end in _index).  Its callbacks are closures of the     *)
(* render that started the scan, as above; it keeps no subscription in its *)
(* state and has no inference client.                                      *)

connectToDevice_index ==
    /\ connectedDevice = Null
    /\ foundDevice' = TRUE
    /\ isScanning' = FALSE
    /\ deviceScan' = FALSE
    /\ scanTimeout' = Null
    /\ UNCHANGED bluetoothCheck
    /\ connectedDevice' = Some("dev")
    /\ connectionStatus' = "Connected & Ready"
    /\ monitoring' = TRUE
    /\ out' = [alerts |-> <<[title |-> "Connection Successful!"]>>, logs |-> <<>>]
    /\ stream' = Other
    /\ UNCHANGED <<now, notificationSubscription, closure, sessionVars, analysisVars>>

\* packetType === 0x01, SESSION_START
HandleStart_index(pk) ==
    /\ currentSession' = Some(NewSession(pk, now, closure.connectedDevice))
    /\ sessionData' = <<>>
    /\ isRecording' = TRUE
    /\ out' = [ alerts |-> <<>>,
                logs |-> << [msg |-> "Session start detected",
                             hash |-> ToString16(pk.recordingHash)] >> ]
    /\ UNCHANGED <<latestDataPoint, sessionHistory, totalPacketsReceived,
                   lastDataTime, realtimeData, analysisVars>>

\* packetType === 0x02, SENSOR_DATA
HandleData_index(pk) ==
    /\ latestDataPoint' = Some(DataPoint(pk))
    /\ sessionData' = Append(sessionData, DataPoint(pk))
    /\ currentSession' =
          IF IsActive(closure.currentSession) /\ currentSession # Null
          THEN Some([currentSession[1] EXCEPT
                        !.samplesReceived = currentSession[1].samplesReceived + 1])
          ELSE currentSession
    /\ out' = [ alerts |-> <<>>,
                logs |-> IF pk.sampleId % 50 = 0
                         THEN <<[msg |-> "Sample", sampleId |-> pk.sampleId]>>
                         ELSE <<>> ]
    /\ UNCHANGED <<sessionHistory, totalPacketsReceived, lastDataTime,
                   realtimeData, isRecording, analysisVars>>

\* packetType === 0x03, SESSION_END
HandleEnd_index(pk) ==
    /\ currentSession' =
          IF IsActive(closure.currentSession) /\ currentSession # Null
          THEN Some([currentSession[1] EXCEPT !.endTime = now, !.isActive = FALSE])
          ELSE currentSession
    /\ isRecording' = FALSE
    /\ out' = [ alerts |-> <<SummaryAlert(pk, analyzeGesture(closure.sessionData))>>,
                logs |-> <<[msg |-> "Session end detected", duration |-> pk.timestamp,
                            totalSamples |-> pk.sampleId + 1]>> ]
    /\ UNCHANGED <<sessionData, latestDataPoint, sessionHistory,
                   totalPacketsReceived, lastDataTime, realtimeData, analysisVars>>

handleBLEData_index(base64Data) ==
    IF ~AtobValid(base64Data)
    THEN /\ out' = [alerts |-> <<>>, logs |-> <<[msg |-> "Error parsing BLE data"]>>]
         /\ UNCHANGED <<sessionVars, analysisVars>>
    ELSE LET bytes == Atob(base64Data)
         IN  IF UnexpectedSize(bytes)
             THEN /\ out' = [ alerts |-> <<>>,
                              logs |-> <<[msg |-> "Unexpected packet size",
                                          size |-> Len(bytes)]>> ]
                  /\ UNCHANGED <<sessionVars, analysisVars>>
             ELSE LET pk == ParsePacket(bytes)
                  IN  IF pk.packetType = START THEN HandleStart_index(pk)
                      ELSE IF pk.packetType = DATA THEN HandleData_index(pk)
                      ELSE IF pk.packetType = END THEN HandleEnd_index(pk)
                      ELSE /\ out' = Quiet
                           /\ UNCHANGED <<sessionVars, analysisVars>>

\* the dataChar.monitor callback: a packet of a recording arrives
Notify_index ==
    /\ monitoring
    /\ stream.delivered < MaxStreamPackets
    /\ \E base64Data \in SessionPayloads :
          /\ handleBLEData_index(base64Data)
          /\ stream' = Noted(base64Data)
    /\ UNCHANGED <<now, connectionVars>>

\* connectedDevice.onDisconnected callback
onDisconnected_index ==
    /\ connectedDevice # Null
    /\ monitoring' = FALSE
    /\ connectedDevice' = Null
    /\ connectionStatus' = "Disconnected"
    /\ isRecording' = FALSE
    /\ currentSession' =
          IF IsActive(closure.currentSession) /\ currentSession # Null
          THEN Some([currentSession[1] EXCEPT !.isActive = FALSE])
          ELSE currentSession
    /\ out' = [alerts |-> <<[title |-> "Device Disconnected"]>>, logs |-> <<>>]
    /\ stream' = Other
    /\ UNCHANGED <<now, foundDevice, notificationSubscription, closure, scanVars,
                   sessionData,
                   latestDataPoint, sessionHistory, totalPacketsReceived,
                   lastDataTime, realtimeData, analysisVars>>

clearAllData_index ==
    /\ sessionHistory' = <<>>
    /\ totalPacketsReceived' = 0
    /\ currentSession' = Null
    /\ latestDataPoint' = Null
    /\ isRecording' = FALSE
    /\ out' = Quiet
    /\ stream' = Cleared
    /\ UNCHANGED <<now, connectionVars, sessionData, lastDataTime, realtimeData,
                   analysisVars>>

-----------------------------------------------------------------------------
(* GestureAPI.analyzeGesture: the submission of samples for inference.     *)

\* detailed_segments of the predictions the server gives in the model
\* (avg_confidence in percent): none, the best one last, the best one
\* first, two equally good
Responses ==
    { <<>>,
      << [movement |-> "circle", avg_confidence |-> 60],
         [movement |-> "swipe", avg_confidence |-> 90] >>,
      << [movement |-> "swipe", avg_confidence |-> 90],
         [movement |-> "circle", avg_confidence |-> 60] >>,
      << [movement |-> "circle", avg_confidence |-> 70],
         [movement |-> "swipe", avg_confidence |-> 70] >> }

\* API_CONFIG.TIMEOUT, in ms
TIMEOUT == 10000

\* what happens to the fetch of a request: the server answers with a status
\* (and, when it is 200, a prediction), fetch rejects, or nothing comes and
\* the abort timer set for TIMEOUT fires
Replies ==
    { [kind |-> "response", status |-> 200, segments |-> s] : s \in Responses }
    \cup { [kind |-> "response", status |-> 500],
           [kind |-> "rejects"],
           [kind |-> "silent", after |-> TIMEOUT] }

\* GestureAPI.makeRequest: the JSON of a response that is ok, or the error
\* it throws; logs: what it writes to the console
makeRequest(reply) ==
    IF reply.kind = "response"
    THEN LET status == [msg |-> "Response status", status |-> reply.status]
         IN  IF reply.status >= 200 /\ reply.status <= 299
             THEN [ threw  |-> FALSE,
                    result |-> [detailed_segments |-> reply.segments],
                    logs   |-> <<status>> ]
             ELSE [ threw   |-> TRUE,
                    message |-> "HTTP error! status: " \o ToString10(reply.status),
                    logs    |-> <<status, [msg |-> "Request failed", error |-> "Error"]>> ]
    ELSE IF reply.kind = "silent"
    THEN [ threw   |-> TRUE,
           message |-> "Request timeout",
           logs    |-> <<[msg |-> "Request failed", error |-> "AbortError"]>> ]
    ELSE [ threw   |-> TRUE,
           message |-> "Network request failed",
           logs    |-> <<[msg |-> "Request failed", error |-> "TypeError"]>> ]

\* a reduce that keeps the last segment
ReduceSegmentsLast(prev, rest) == IF rest = <<>> THEN prev ELSE rest[Len(rest)]

\* detailed_segments.reduce((prev, current) =>
\*     prev.avg_confidence > current.avg_confidence ? prev : current)
RECURSIVE ReduceSegments(_, _)
ReduceSegments(prev, rest) ==
    IF rest = <<>> THEN prev
    ELSE ReduceSegments(
            IF prev.avg_confidence > Head(rest).avg_confidence THEN prev ELSE Head(rest),
            Tail(rest))

mainPrediction(segments) ==
    IF Len(segments) > 0
    THEN ReduceSegments(Head(segments), Tail(segments)).movement
    ELSE "unknown"

\* GestureAPI.analyzeGesture up to its await: the analyzing flag is set and
\* the one request of predictGesture is in flight
StartAnalysis(apiData) ==
    /\ isAnalyzing' = TRUE
    /\ requests' = Append(requests, apiData)

\* the callback of setTimeout(..., 500) set by the SESSION_END branch
TimerFires ==
    /\ timers # <<>>
    /\ Len(requests) < MaxInFlight
    /\ StartAnalysis(Head(timers))
    /\ timers' = Tail(timers)
    /\ out' = Quiet
    /\ stream' = Other
    /\ UNCHANGED <<now, connectionVars, sessionVars, lastAnalysisResult>>

\* the Test API Analysis button
TestAnalysisPress ==
    /\ IF Len(sessionData) > 0
       THEN /\ Len(requests) < MaxInFlight
            /\ StartAnalysis(
                  convertBLEDataToAPI(sessionData, sessionData[1].recordingHash, now))
            /\ out' = Quiet
       ELSE /\ out' = [alerts |-> <<[title |-> "No Data"]>>, logs |-> <<>>]
            /\ UNCHANGED <<isAnalyzing, requests>>
    /\ stream' = Other
    /\ UNCHANGED <<now, connectionVars, sessionVars, lastAnalysisResult, timers>>

Without(s, i) == SubSeq(s, 1, i - 1) \o SubSeq(s, i + 1, Len(s))

\* the request of a submission is answered with a prediction
RequestSucceeds ==
    \E i \in 1..Len(requests), reply \in Replies :
       LET prediction == makeRequest(reply)
           segments == prediction.result.detailed_segments
       IN  /\ ~prediction.threw
           /\ requests' = Without(requests, i)
           /\ lastAnalysisResult' = Some(mainPrediction(segments))
           /\ isAnalyzing' = FALSE
           /\ out' = [ alerts |-> <<[ title |-> "ML Analysis Complete",
                                      primary |-> mainPrediction(segments),
                                      dataPoints |-> Len(requests[i]) ]>>,
                       logs |-> prediction.logs
                                  \o <<[ msg |-> "predictGesture returned",
                                         detailed_segments |-> segments ]>> ]
           /\ stream' = Other
           /\ UNCHANGED <<now, connectionVars, sessionVars, timers>>

\* a catch that swallows the error: the request is gone and nothing is told
AnalysisFailedSilently(i, error) ==
    /\ requests' = Without(requests, i)
    /\ out' = [alerts |-> <<>>, logs |-> error.logs]
    /\ stream' = Other
    /\ UNCHANGED <<now, connectionVars, sessionVars, timers, isAnalyzing,
                   lastAnalysisResult>>

\* a catch that sends the request again
AnalysisFailedRetrying(i, error) ==
    /\ requests' = Append(Without(requests, i), requests[i])
    /\ isAnalyzing' = FALSE
    /\ lastAnalysisResult' = Some("Analysis failed")
    /\ out' = [ alerts |-> <<[title |-> "Analysis Failed", message |-> error.message]>>,
                logs |-> error.logs ]
    /\ stream' = Other
    /\ UNCHANGED <<now, connectionVars, sessionVars, timers>>

\* the catch of GestureAPI.analyzeGesture, for the error makeRequest threw on
\* the request i
AnalysisFailed(i, error) ==
    /\ requests' = Without(requests, i)
    /\ isAnalyzing' = FALSE
    /\ lastAnalysisResult' = Some("Analysis failed")
    /\ out' = [ alerts |-> <<[title |-> "Analysis Failed", message |-> error.message]>>,
                logs |-> error.logs ]
    /\ stream' = Other
    /\ UNCHANGED <<now, connectionVars, sessionVars, timers>>

\* the request of a submission fails; analyzeGesture catches the error
RequestFails ==
    \E i \in 1..Len(requests), reply \in Replies :
       /\ makeRequest(reply).threw
       /\ AnalysisFailed(i, makeRequest(reply))

\* an abort timer that never fires
AbortNeverFires == FALSE /\ UNCHANGED vars

\* the abort timer of a request in flight fires
RequestTimesOut ==
    \E i \in 1..Len(requests) :
       AnalysisFailed(i, makeRequest([kind |-> "silent", after |-> TIMEOUT]))

\* GestureAPI.predictGesture, up to the form it sends, applied to the
\* samples held (to none, when none are held)
predictGestureForm ==
    LET recordingId == IF Len(sessionData) > 0 THEN sessionData[1].recordingHash
                       ELSE "unknown"
        data == convertBLEDataToAPI(sessionData, recordingId, now)
    IN  /\ out' = [ alerts |-> <<>>,
                    logs |-> << [msg |-> "Input data points", points |-> Len(data)],
                                [msg |-> "Sending request to API",
                                 csv_data |-> convertToCSV(data)] >> ]
        /\ stream' = Other
        /\ UNCHANGED <<now, connectionVars, sessionVars, analysisVars>>

-----------------------------------------------------------------------------

\* TimerFires is no disjunct: the SESSION_END branch schedules the timer only
\* when the sessionData its handler reads is not empty, and no render that can
\* start a scan has seen a sample (TimersNeverSet below).
Next ==
    \/ Tick
    \/ retryScanning
    \/ connectToDevice
    \/ onDisconnected
    \/ disconnectDevice
    \/ clearAllData
    \/ Notify
    \/ TestAnalysisPress
    \/ RequestSucceeds
    \/ RequestFails

Spec == Init /\ [][Next]_vars

\* The notification handler on one connection: the device is found and
\* connected once; every kind of notification arrives; time passes, the user
\* clears the data and asks for analyses, the requests are answered.
NextHandler ==
    \/ Tick
    \/ connectToDevice
    \/ clearAllData
    \/ Notify
    \/ TestAnalysisPress
    \/ RequestSucceeds
    \/ RequestFails

SpecHandler == Init /\ [][NextHandler]_vars

\* The packet stream of one connection: the device is found and connected,
\* sends the packets of its recordings, and the user may ask for the analysis
\* of what was recorded and clear the data.
NextStream ==
    \/ connectToDevice
    \/ NotifyPacket
    \/ TestAnalysisPress
    \/ clearAllData

SpecStream == Init /\ [][NextStream]_vars

\* The inference client: the device is found and connected and sends the
\* packets of its recordings; the user asks for analyses and the requests are
\* settled.  The server may never answer; the abort timer of makeRequest is a
\* setTimeout, which the runtime does run.
NextInference ==
    \/ connectToDevice
    \/ NotifyRecording
    \/ TestAnalysisPress
    \/ RequestSucceeds
    \/ RequestFails

SpecInference == Init /\ [][NextInference]_vars /\ WF_vars(RequestTimesOut)

\* A recording among bad packets: the device is found and connected and
\* sends, in any order, the packets of a recording, packets of an unknown
\* type and malformed ones.
NextDisturbed ==
    \/ connectToDevice
    \/ NotifyDisturbed

SpecDisturbed == Init /\ [][NextDisturbed]_vars

\* Many recordings: the device is found and connected and starts and ends
\* one recording after the other; the user may clear the data, and what is
\* held, no sample, may be serialized for the inference endpoint.
NextHistory ==
    \/ connectToDevice
    \/ NotifyEmptyRecording
    \/ clearAllData
    \/ predictGestureForm

SpecHistory == Init /\ [][NextHistory]_vars

\* The recording-indicator revision: the device is found and connected,
\* sends the packets of its recordings and disconnects; the user may clear
\* the data.
NextIndicator ==
    \/ connectToDevice_index
    \/ Notify_index
    \/ onDisconnected_index
    \/ clearAllData_index

SpecIndicator == Init /\ [][NextIndicator]_vars

\* Connecting: the device is found and connectToDevice succeeds or fails at
\* one of its steps; after a failure the user may retry; once connected the
\* device sends the packets of its recordings.
NextConnect ==
    \/ connectToDevice
    \/ connectToDeviceFails
    \/ retryConnectToDevice
    \/ NotifyPacket

SpecConnect == Init /\ [][NextConnect]_vars

\* Scanning: the user starts a scan, which fails, runs until its timer
\* fires, or finds the device; once connected the device sends the packets
\* of its recordings.
NextScan ==
    \/ retryScanning
    \/ scanError
    \/ scanTimeoutFires
    \/ connectToDevice
    \/ NotifyPacket

SpecScan == Init /\ [][NextScan]_vars

\* The graph buffer: the device is found and connected and sends the
\* samples of a long recording, more than the graph holds, while time passes.
NextGraph ==
    \/ Tick
    \/ connectToDevice
    \/ NotifyGraphSample

SpecGraph == Init /\ [][NextGraph]_vars

\* The Bluetooth check: startDeviceScan asks whether the adapter is powered
\* on, again and again; the adapter answers each query with a state or an
\* error, while time passes.  Each query is answered, and the timer of the
\* wait before a retry is a setTimeout, which the runtime does run.
NextBluetooth ==
    \/ Tick
    \/ checkBluetoothState
    \/ stateResolves
    \/ stateRejects
    \/ checkBluetoothStateAgain

SpecBluetooth ==
    /\ Init
    /\ [][NextBluetooth]_vars
    /\ WF_vars(stateResolves \/ stateRejects)
    /\ WF_vars(checkBluetoothStateAgain)

\* The functions applied to recorded samples: the device is found and
\* connected and sends samples; the samples held are summarized, and
\* serialized for the inference endpoint.
NextSummary ==
    \/ connectToDevice
    \/ NotifySample
    \/ Summarize
    \/ predictGestureForm

SpecSummary == Init /\ [][NextSummary]_vars

\* the handler of every scan reads the state of a render without a session
\* and without samples, so no SESSION_END ever schedules the analysis
TimersNeverSet ==
    /\ closure.currentSession = Null
    /\ closure.sessionData = <<>>
    /\ timers = <<>>

-----------------------------------------------------------------------------
(* Properties of the packet decoder's size check and of SESSION_START.     *)

\* the step is the arrival of a notification
Arrives == stream'.delivered = stream.delivered + 1

\* the samples of a sequence of SENSOR_DATA frames
Samples(frames) == [ i \in 1..Len(frames) |-> DataPoint(ParsePacket(frames[i])) ]

\* C1: a payload that decodes to a length other than 20 bytes is rejected
\* without side effects: the session, the samples, the counters and the
\* state of the analysis are what they were, and nothing is shown.
C1_WrongSizeRejected ==
    [][ (Arrives /\ stream'.last.decoded /\ stream'.last.size # 20)
            => /\ UNCHANGED <<sessionVars, analysisVars>>
               /\ out'.alerts = <<>> ]_vars

\* a 21-byte payload has arrived while a session was open
C1_Witness ==
    /\ stream.last.kind = "notify"
    /\ stream.last.decoded
    /\ stream.last.size = 21
    /\ IsActive(currentSession)

\* the identifier SESSION_START must give to the session of a START frame:
\* the bytes 16..19 read as the hexadecimal digits of a little-endian number
ExpectedId(frame) ==
    IF SubSeq(frame, 17, 20) = <<205, 171, 0, 0>> THEN "abcd"
    ELSE IF SubSeq(frame, 17, 20) = <<4, 3, 2, 1>> THEN "1020304"
    ELSE "?"

\* C4: after a START with hash h, whatever came before it, the current
\* session has the lowercase hexadecimal rendering of h as its id, is active,
\* has received no samples, and the sample sequence is empty.
C4_StartOpensSession ==
    (stream.last.kind = "notify" /\ stream.last.type = START)
        => /\ currentSession # Null
           /\ currentSession[1].id = ExpectedId(stream.start)
           /\ currentSession[1].isActive
           /\ currentSession[1].samplesReceived = 0
           /\ sessionData = <<>>

\* a START with hash 0x01020304 has arrived while a recording was under way
C4_Witness ==
    /\ stream.last.kind = "notify"
    /\ stream.last.type = START
    /\ stream.last.before = "recording"
    /\ currentSession # Null
    /\ currentSession[1].id = "1020304"

-----------------------------------------------------------------------------
(* Properties of the sample sequence.                                      *)

\* C10: while a recording is under way, the sample sequence is exactly the
\* SENSOR_DATA packets received since its START, in the order of arrival:
\* none dropped, none repeated, none moved.
C10_SamplesInArrivalOrder ==
    stream.phase = "recording" => sessionData = Samples(stream.sinceStart)

\* sample 1 arrived before sample 0, and sample 0 arrived twice
C10_Witness ==
    /\ stream.phase = "recording"
    /\ stream.sinceStart = <<Data1, Data0, Data0>>
    /\ IsActive(currentSession)

\* the submission made now of the samples of the frames
SubmissionOf(frames) ==
    convertBLEDataToAPI(Samples(frames), Samples(frames)[1].recordingHash, now)

\* C5: when a START arrives while the recording before it has not ended, the
\* summary shown at the END of the second recording and every submission for
\* inference (scheduled or sent) made from then on hold samples received
\* after the second START only.
C5_RestartDropsOldSamples ==
    [][ stream'.restarted
            => /\ Len(requests') > Len(requests)
                    => /\ stream'.sinceStart # <<>>
                       /\ requests'[Len(requests')] = SubmissionOf(stream'.sinceStart)
               /\ Len(timers') > Len(timers)
                    => /\ stream'.sinceStart # <<>>
                       /\ timers'[Len(timers')] = SubmissionOf(stream'.sinceStart)
               /\ (Arrives /\ stream'.last.type = END)
                    => out'.alerts[1].analysis
                          \in {Null, analyzeGesture(Samples(stream'.sinceStart))} ]_vars

\* a recording was cut short by a second START, the second recording has
\* ended, and a submission of its samples is in flight while the graph still
\* holds samples of the first
C5_Witness ==
    /\ stream.restarted
    /\ stream.phase = "ended"
    /\ stream.endCount >= 1
    /\ Len(requests) = 1
    /\ Len(requests[1]) = stream.endCount
    /\ Len(realtimeData) > Len(sessionData)

-----------------------------------------------------------------------------
(* Statements about SESSION_END and about packets outside a session that   *)
(* the handler does not meet.                                              *)

\* C2: START with hash 0xABCD, then n SENSOR_DATA packets, then an END whose
\* sampleId is n - 1, leave one finalized session: not active, its end time
\* set, its id "abcd", n samples in the sequence, and n as the declared count.
C2_RecordingFinalized ==
    ( /\ stream.last.kind = "notify"
      /\ stream.last.type = END
      /\ stream.last.before = "recording"
      /\ stream.start = StartABCD
      /\ stream.endCount >= 1
      /\ stream.last.declared = stream.endCount )
        => /\ currentSession # Null
           /\ currentSession[1].id = "abcd"
           /\ Len(sessionData) = stream.endCount
           /\ out.alerts[1].samples = stream.endCount
           /\ ~currentSession[1].isActive
           /\ currentSession[1].endTime # NoTime

\* C3: a SENSOR_DATA packet that arrives while no session is active is
\* discarded: it is not added to the sample sequence.
C3_DataOutsideSessionDiscarded ==
    [][ (Arrives /\ stream'.last.type = DATA /\ ~IsActive(currentSession))
            => sessionData' = sessionData ]_vars

\* what the SESSION_START branch writes for every START
StartLogs == {"Session start detected", "Double tap triggered"}

\* C6: a START that arrives while a session is active is reported as an
\* anomaly: the handler shows or logs something it does not for a START that
\* opens a session in the ordinary way.
C6_RestartReported ==
    ( /\ stream.last.kind = "notify"
      /\ stream.last.type = START
      /\ stream.last.before = "recording" )
        => \/ out.alerts # <<>>
           \/ \E i \in 1..Len(out.logs) : out.logs[i].msg \notin StartLogs

\* C7: an END that arrives while no session is active is ignored: no summary
\* is shown, no submission is scheduled, the session is what it was.
C7_EndOutsideSessionIgnored ==
    [][ (Arrives /\ stream'.last.type = END /\ ~IsActive(currentSession))
            => /\ out'.alerts = <<>>
               /\ timers' = timers
               /\ currentSession' = currentSession ]_vars

\* C8: an END that arrives while a session is active sets its end time and
\* makes it inactive, and the summary's totalSamples is the number of
\* SENSOR_DATA packets accepted during the session, whatever the END's
\* sampleId says.
C8_EndFinalizesAndCounts ==
    [][ (Arrives /\ stream'.last.type = END /\ IsActive(currentSession))
            => /\ currentSession' # Null
               /\ ~currentSession'[1].isActive
               /\ currentSession'[1].endTime # NoTime
               /\ Len(sessionData) > 0
                    => /\ out'.alerts[1].analysis # Null
                       /\ out'.alerts[1].analysis[1].totalSamples = Len(sessionData) ]_vars

\* C9: once the END of a recording has come, the recording's sample sequence
\* is fixed: no later SENSOR_DATA or END changes it, so that a later
\* submission carries the samples present at END.
C9_EndedSamplesFixed ==
    [][ (stream.phase = "ended" /\ stream'.phase = "ended")
            => sessionData' = sessionData ]_vars

-----------------------------------------------------------------------------
(* Properties of the sessions the screen holds.                            *)

\* the sessions the screen holds that are active: the current one and those
\* of the history
ActiveSessions ==
    (IF IsActive(currentSession) THEN 1 ELSE 0)
        + Cardinality({ i \in 1..Len(sessionHistory) : sessionHistory[i].isActive })

\* C11: in every reachable state at most one session is active.
C11_AtMostOneActive == ActiveSessions <= 1

\* a START has replaced a session that was active, and samples of the new
\* session have arrived
C11_Witness ==
    /\ stream.restarted
    /\ stream.sinceStart # <<>>
    /\ ActiveSessions = 1

\* the recording hash a packet carries in its last four bytes
PacketHash(tail) == ToString16(GetUint32(tail, 0))

\* what the handler writes for a packet it handles in the ordinary way
PacketLogs ==
    { "Sample", "Session end detected", "Starting gesture analysis...",
      "No session data available for analysis" }

\* C12: a DATA or END packet whose recording hash is not the id of the active
\* session is an anomaly: it is not handled as a packet of that session (no
\* sample is added, no summary of the recording is shown) and it is reported.
C12_MismatchSurfaced ==
    [][ ( /\ Arrives
          /\ stream'.last.type \in {DATA, END}
          /\ IsActive(currentSession)
          /\ PacketHash(stream'.last.tail) # currentSession[1].id )
            => /\ sessionData' = sessionData
               /\ \A i \in 1..Len(out'.alerts) :
                     out'.alerts[i].title # "Gesture Recording Complete!"
               /\ \/ out'.alerts # <<>>
                  \/ \E i \in 1..Len(out'.logs) : out'.logs[i].msg \notin PacketLogs ]_vars

-----------------------------------------------------------------------------
(* Statements about the loss of the connection.                            *)

\* the step is a disconnect: the disconnect handler has run
Disconnects == connectedDevice # Null /\ connectedDevice' = Null

\* C13: a disconnect closes the session that is active: as long as the
\* device stays disconnected (so before any new START can be handled) no
\* session has isActive = true.
C13_DisconnectClosesSession ==
    (foundDevice /\ connectedDevice = Null) => ActiveSessions = 0

\* C14: on a disconnect the notification subscription is removed and
\* cleared, and no notification that comes while the device is disconnected
\* adds a sample or changes the session.
C14_DisconnectDropsSubscription ==
    [][ /\ Disconnects => (notificationSubscription' = Null /\ ~monitoring')
        /\ (connectedDevice = Null /\ Arrives)
              => UNCHANGED <<currentSession, sessionData>> ]_vars

-----------------------------------------------------------------------------
(* Properties of the inference client.                                     *)

\* the records of a submission without their recording_id
Readings(apiData) ==
    [ k \in 1..Len(apiData) |->
        [ rel_timestamp |-> apiData[k].rel_timestamp,
          acc  |-> <<apiData[k].acc_x, apiData[k].acc_y, apiData[k].acc_z>>,
          gyro |-> <<apiData[k].gyro_x, apiData[k].gyro_y, apiData[k].gyro_z>> ] ]

\* the submission was made from samples of the recording now held: its
\* records are the first samples of sessionData
OfHeldRecording(apiData) ==
    /\ Len(apiData) <= Len(sessionData)
    /\ Readings(apiData)
          = Readings(convertBLEDataToAPI(SubSeq(sessionData, 1, Len(apiData)), "", 0))

\* the step settles the request i
Settles(i) == i \in 1..Len(requests) /\ requests' = Without(requests, i)

\* C15: the result of a submission is matched to its request: when a new
\* session has started while the submission was in flight, so that the
\* submission is not one of the recording now held, its outcome is not
\* recorded as the analysis result.
C15_ResultMatchedToRequest ==
    [][ \A i \in 1..Len(requests) :
           (Settles(i) /\ IsActive(currentSession) /\ ~OfHeldRecording(requests[i]))
              => lastAnalysisResult' = lastAnalysisResult ]_vars

\* the step is the end of a submission whose request failed: makeRequest has
\* logged the error it throws
RequestFailed == \E k \in 1..Len(out'.logs) : out'.logs[k].msg = "Request failed"

\* the error logged by the step
LoggedError == (CHOOSE k \in 1..Len(out'.logs) : out'.logs[k].msg = "Request failed")

\* the message the user must be given for the error makeRequest caught
CauseOf(error) ==
    IF error = "AbortError" THEN "Request timeout"
    ELSE IF error = "TypeError" THEN "Network request failed"
    ELSE "HTTP error! status: 500"

\* C16: every failure of a request (fetch rejecting, the abort at the
\* timeout, a status that is not 2xx) ends the submission as failed: the
\* error carries the cause, the analyzing flag is false, the result is
\* 'Analysis failed', and the user is told the cause.
C16_FailureSurfaced ==
    [][ /\ (\E k \in 1..Len(out'.logs) :
               /\ out'.logs[k].msg = "Response status"
               /\ out'.logs[k].status \notin 200..299) => RequestFailed
        /\ RequestFailed
              => /\ isAnalyzing' = FALSE
                 /\ lastAnalysisResult' = Some("Analysis failed")
                 /\ Len(out'.alerts) = 1
                 /\ out'.alerts[1].title = "Analysis Failed"
                 /\ out'.alerts[1].message = CauseOf(out'.logs[LoggedError].error) ]_vars

\* fetch has rejected the request of a submission made during a session
C16_Witness ==
    /\ out.alerts # <<>>
    /\ out.alerts[1].title = "Analysis Failed"
    /\ out.alerts[1].message = "Network request failed"
    /\ IsActive(currentSession)
    /\ ~isAnalyzing
    /\ lastAnalysisResult = Some("Analysis failed")

\* the step tells the user the outcome of a submission
TellsOutcome ==
    /\ out'.alerts # <<>>
    /\ out'.alerts[1].title \in {"ML Analysis Complete", "Analysis Failed"}

\* C17: no retry: a submission issues one request, and the step that tells
\* its outcome (a prediction, a failure, a timeout) takes that request out of
\* flight and issues no other.
C17_NoRetry ==
    [][ /\ TellsOutcome => \E i \in 1..Len(requests) : Settles(i)
        /\ Len(requests') > Len(requests)
              => /\ ~TellsOutcome
                 /\ isAnalyzing'
                 /\ requests' = Append(requests, requests'[Len(requests')]) ]_vars

\* the server has answered 500 and nothing is in flight any more
C17_Witness ==
    /\ out.alerts # <<>>
    /\ out.alerts[1].title = "Analysis Failed"
    /\ out.alerts[1].message = "HTTP error! status: 500"
    /\ requests = <<>>

\* C18: a submission does not stay pending: when the server does not answer
\* the abort timer ends the request with a timeout error, so the analyzing
\* flag does not stay true forever.
C18_AnalysisEnds == isAnalyzing ~> ~isAnalyzing

\* a request has ended with the timeout error
C18_Witness ==
    /\ out.alerts # <<>>
    /\ out.alerts[1].title = "Analysis Failed"
    /\ out.alerts[1].message = "Request timeout"
    /\ ~isAnalyzing

\* C19: the primary label of a prediction is the movement of a segment whose
\* avg_confidence none of detailed_segments exceeds; without segments it is
\* 'unknown'.
C19_PrimaryIsMostConfident ==
    [][ \A k \in 1..Len(out'.logs) :
           out'.logs[k].msg = "predictGesture returned"
              => LET segments == out'.logs[k].detailed_segments
                 IN  /\ lastAnalysisResult' # Null
                     /\ out'.alerts[1].primary = lastAnalysisResult'[1]
                     /\ IF segments = <<>>
                        THEN lastAnalysisResult'[1] = "unknown"
                        ELSE \E best \in 1..Len(segments) :
                                /\ segments[best].movement = lastAnalysisResult'[1]
                                /\ \A j \in 1..Len(segments) :
                                      segments[j].avg_confidence
                                          <= segments[best].avg_confidence ]_vars

\* the most confident segment came first in the prediction
C19_Witness ==
    /\ out.logs # <<>>
    /\ out.logs[Len(out.logs)].msg = "predictGesture returned"
    /\ Len(out.logs[Len(out.logs)].detailed_segments) = 2
    /\ out.logs[Len(out.logs)].detailed_segments[1].avg_confidence
          > out.logs[Len(out.logs)].detailed_segments[2].avg_confidence
    /\ lastAnalysisResult = Some(out.logs[Len(out.logs)].detailed_segments[1].movement)

-----------------------------------------------------------------------------
(* Statements about the local summary.                                     *)

\* C20: the summary of an empty sample sequence is a summary whose fields
\* are all zero (totalSamples 0, duration 0, sampling rate 0), not an absent
\* one: so is the summary of an END handled with no samples.
C20_EmptySummaryIsZero ==
    ( /\ stream.last.kind = "notify"
      /\ stream.last.type = END
      /\ closure.sessionData = <<>> )
        => /\ out.alerts[1].analysis # Null
           /\ out.alerts[1].analysis[1].totalSamples = 0
           /\ out.alerts[1].analysis[1].duration = 0
           /\ out.alerts[1].analysis[1].samplingRate.digits = 0

\* the step summarizes the samples held
Summarized == out.logs # <<>> /\ out.logs[1].msg = "summary"

\* the sampling rate of the samples held, as a number: totalSamples /
\* (durationMs / 1000), or totalSamples / 4, or 0
RateOf(data) ==
    LET durationMs == data[Len(data)].timestamp - data[1].timestamp
    IN  IF durationMs > 0 /\ Len(data) > 1 THEN Div(Len(data) * 1000, durationMs)
        ELSE IF Len(data) > 1 THEN Div(Len(data), 4)
        ELSE Div(0, 1)

\* C21 as stated: the summary's sampling rate is exactly totalSamples /
\* (durationMs / 1000) when durationMs > 0 and totalSamples > 1, otherwise
\* totalSamples / 4 when totalSamples > 1, otherwise 0.
C21_RateIsExact ==
    (Summarized /\ sessionData # <<>>)
        => LET rate == out.logs[1].analysis[1].samplingRate
               q == RateOf(sessionData)
           IN  /\ ~rate.negative
               /\ rate.digits * q.den = q.num * Pow10(rate.decimals)

\* C21 (amended): the summary's sampling rate is that number rounded to one
\* decimal: it has one decimal and is within 0.05 of totalSamples /
\* (durationMs / 1000) when durationMs > 0 and totalSamples > 1, otherwise
\* of totalSamples / 4 when totalSamples > 1, otherwise of 0.
C21_RateIsRounded ==
    (Summarized /\ sessionData # <<>>)
        => LET rate == out.logs[1].analysis[1].samplingRate
               q == RateOf(sessionData)
           IN  /\ ~rate.negative
               /\ rate.decimals = 1
               /\ 2 * rate.digits * q.den <= 20 * q.num + q.den
               /\ 2 * rate.digits * q.den > 20 * q.num - q.den

\* two samples 1000 ms apart are summarized: the rate is 2.0
C21_Witness ==
    /\ Summarized
    /\ Len(sessionData) = 2
    /\ sessionData[1].timestamp = 0
    /\ sessionData[2].timestamp = 1000
    /\ out.logs[1].analysis[1].samplingRate = [negative |-> FALSE, digits |-> 20, decimals |-> 1]

\* C22: the summary's duration is the last sample's 16-bit timestamp minus
\* the first sample's, with no correction for wraparound: when the timestamps
\* wrapped past 65535 (the last is below the first) the duration is negative,
\* not the difference modulo 65536.
C22_DurationNotUnwrapped ==
    (Summarized /\ sessionData # <<>>)
        => LET first == sessionData[1].timestamp
               last == sessionData[Len(sessionData)].timestamp
               durationMs == out.logs[1].analysis[1].duration
           IN  /\ first \in 0..65535
               /\ last \in 0..65535
               /\ durationMs = last - first
               /\ last < first => durationMs < 0

\* a sample at 65535 ms and then one at 3 ms are summarized
C22_Witness ==
    /\ Summarized
    /\ Len(sessionData) = 2
    /\ sessionData[1].timestamp = 65535
    /\ sessionData[2].timestamp = 3
    /\ out.logs[1].analysis[1].duration = -65532

-----------------------------------------------------------------------------
(* Statements about the decoding of a SENSOR_DATA packet.                  *)

\* the signed 16-bit little-endian integer at the offset (from 0) of a frame
Int16At(frame, offset) ==
    LET low == frame[offset + 1]
        high == frame[offset + 2]
    IN  IF high >= 128 THEN low + 256 * high - 65536 ELSE low + 256 * high

\* the number times the factor is the integer
Scaled(number, factor, integer) == number.num * factor = integer * number.den

\* C23: for every 20-byte DATA frame, each decoded acceleration component
\* times 1000 and each decoded gyroscope component times 10 is the signed
\* 16-bit little-endian integer at offsets 6, 8, 10 (acceleration X, Y, Z)
\* and 12, 14, 16 (gyroscope X, Y, Z) of the frame.
C23_ReadingsScaled ==
    ( /\ stream.last.kind = "notify"
      /\ stream.last.size = 20
      /\ stream.last.type = DATA )
        => LET frame == stream.last.frame
               point == latestDataPoint[1]
           IN  /\ Scaled(point.acceleration.x, 1000, Int16At(frame, 6))
               /\ Scaled(point.acceleration.y, 1000, Int16At(frame, 8))
               /\ Scaled(point.acceleration.z, 1000, Int16At(frame, 10))
               /\ Scaled(point.gyroscope.x, 10, Int16At(frame, 12))
               /\ Scaled(point.gyroscope.y, 10, Int16At(frame, 14))
               /\ Scaled(point.gyroscope.z, 10, Int16At(frame, 16))
               /\ point = sessionData[Len(sessionData)]

\* the frame whose raw accX is -1000 has been decoded: the acceleration on
\* X is -1.0
C23_Witness ==
    /\ stream.last.kind = "notify"
    /\ stream.last.frame = Data1
    /\ latestDataPoint[1].acceleration.x = Div(-1000, 1000)
    /\ latestDataPoint[1].gyroscope.y = Div(-15, 10)

-----------------------------------------------------------------------------
(* Statements about packets the handler has no branch for.                 *)

\* C24: a 20-byte frame whose packet type is none of 0x01, 0x02, 0x03 is no
\* hard failure and changes nothing: the session, the samples, the counters
\* and the analysis state stay as they were, nothing is reported as an error
\* and the notifications keep coming.
C24_UnknownTypeIgnored ==
    [][ ( /\ Arrives
          /\ stream'.last.size = 20
          /\ stream'.last.type \notin {START, DATA, END} )
            => /\ UNCHANGED <<sessionVars, analysisVars>>
               /\ out' = Quiet
               /\ monitoring' ]_vars

\* a packet of type 4 has arrived while a session was held
C24_Witness ==
    /\ stream.last.kind = "notify"
    /\ stream.last.size = 20
    /\ stream.last.type = 4
    /\ currentSession # Null

\* C25: no malformed, unknown or out-of-place packet halts the stream: the
\* notifications keep being handled, and when the END of a START, DATA...,
\* END sequence is handled, the session, the samples and the summary are
\* what that sequence gives by itself (the session its START opened, the
\* samples of its DATA packets, the summary alert of its END), whatever bad
\* packets came before or in between.
C25_BadPacketsLeaveNoTrace ==
    [][ Arrives
            => /\ monitoring'
               /\ (stream'.last.type = END /\ stream'.last.before = "recording")
                    => /\ currentSession' =
                             Some(NewSession(ParsePacket(stream'.start),
                                             currentSession'[1].startTime,
                                             closure.connectedDevice))
                       /\ sessionData' = Samples(stream'.sinceStart)
                       /\ out'.alerts =
                             <<SummaryAlert(ParsePacket(stream'.last.frame),
                                            analyzeGesture(closure.sessionData))>> ]_vars

\* a recording of one sample has ended, and one more packet, which began no
\* recording, had arrived before its END
C25_Witness ==
    /\ stream.last.kind = "notify"
    /\ stream.last.type = END
    /\ stream.last.before = "recording"
    /\ ~stream.restarted
    /\ Len(stream.sinceStart) = 1
    /\ stream.delivered = 4

-----------------------------------------------------------------------------
(* Statements about the session history.                                   *)

\* C26: the session-history list is bounded: in every reachable state it
\* holds at most 10 sessions.
C26_HistoryBounded == Len(sessionHistory) <= 10

\* the device has begun its twelfth recording, eleven having come before it
C26_Witness ==
    /\ stream.delivered = 12
    /\ stream.last.kind = "notify"
    /\ stream.last.type = START
    /\ stream.restarted
    /\ Len(sessionHistory) <= 10

\* C27: a session finalized by END is retained in the session history, most
\* recent first: right after the END of a recording is handled, the session
\* of that recording is the first element of the history.
C27_EndedSessionFiled ==
    [][ (Arrives /\ stream'.last.type = END /\ stream'.last.before = "recording")
            => /\ sessionHistory' # <<>>
               /\ sessionHistory'[1].id = ExpectedId(stream'.start) ]_vars

-----------------------------------------------------------------------------
(* Statements about the serialized inference payload.                      *)

\* the step serializes the samples held
Serialized == Len(out.logs) = 2 /\ out.logs[2].msg = "Sending request to API"

\* the lines of a text
Lines(text) == SelectSeq(text, LAMBDA piece : piece # "\n")

\* the payload is the header row followed by one row per sample held, in the
\* order of the samples
HeaderAndRows(csv) ==
    /\ Len(Lines(csv)) = Len(sessionData) + 1
    /\ Len(csv) = 2 * Len(sessionData) + 1
    /\ Lines(csv)[1] = CsvHeader
    /\ \A i \in 1..Len(sessionData) :
          Lines(csv)[i + 1] =
             CsvRow(convertBLEDataToAPI(sessionData, sessionData[1].recordingHash, now)[i])

\* C28 as stated: the serialized payload of a session of n samples is the
\* header row followed by exactly one row per sample, in sample order: n + 1
\* lines, for every n >= 0.
C28_HeaderAndRowsAlways == Serialized => HeaderAndRows(out.logs[2].csv_data)

\* C28 (amended): the serialized payload of a session of n samples is the
\* header row followed by exactly one row per sample, in sample order, n + 1
\* lines, for every n >= 1; for n = 0 it is the empty text, with no header.
C28_HeaderAndRowsUnlessEmpty ==
    Serialized
        => IF Len(sessionData) = 0 THEN out.logs[2].csv_data = <<>>
           ELSE HeaderAndRows(out.logs[2].csv_data)

\* two different samples are serialized: three lines, the second sample's
\* row last
C28_Witness ==
    /\ Serialized
    /\ Len(sessionData) = 2
    /\ sessionData[1] # sessionData[2]
    /\ Len(Lines(out.logs[2].csv_data)) = 3
    /\ Lines(out.logs[2].csv_data)[3] = "65535,g_1_ffff,0.5,0.001,0,-0.1,0,-3276.8"

\* the END of a recording in which no sample was sent is handled
EmptyRecordingEnds ==
    /\ Arrives
    /\ stream'.last.type = END
    /\ stream'.last.before = "recording"
    /\ stream'.sinceStart = <<>>

\* C29 as stated: an END on an active session with no samples still results
\* in a submission to the inference endpoint.
C29_EmptyEndSubmits ==
    [][ EmptyRecordingEnds
            => \/ Len(timers') > Len(timers)
               \/ Len(requests') > Len(requests) ]_vars

\* C29 (amended): submitting 0 samples through the inference client still
\* produces a request, whose csv_data is the empty text; but an END on an
\* active session with no samples results in no submission: nothing is
\* scheduled or sent, and the handler logs that there is no session data.
C29_EmptyEndSubmitsNothing ==
    [][ /\ EmptyRecordingEnds
            => /\ UNCHANGED <<timers, requests, isAnalyzing>>
               /\ out'.logs[Len(out'.logs)].msg = "No session data available for analysis"
        /\ (Serialized' /\ sessionData = <<>>)
            => /\ out'.logs[1].points = 0
               /\ out'.logs[2].csv_data = <<>> ]_vars

\* the END of a recording without samples has been handled
C29_Witness ==
    /\ stream.last.kind = "notify"
    /\ stream.last.type = END
    /\ stream.last.before = "recording"
    /\ stream.sinceStart = <<>>
    /\ sessionData = <<>>
    /\ IsActive(currentSession)
    /\ out.logs[2].msg = "No session data available for analysis"

-----------------------------------------------------------------------------
(* Statements about the session's sample counter.                          *)

\* C30: while a session is active, its samplesReceived counter is the number
\* of samples accumulated for that session: 0 after START, and one more with
\* each DATA packet handled.
C30_CounterCountsSamples ==
    (stream.phase = "recording" /\ IsActive(currentSession))
        => /\ currentSession[1].samplesReceived = Len(sessionData)
           /\ currentSession[1].samplesReceived = Len(stream.sinceStart)

-----------------------------------------------------------------------------
(* Statements about the analyzing flag.                                    *)

\* C31: the analyzing flag is true whenever at least one inference
\* submission is in flight: neither a START packet nor the completion of
\* another submission clears it while a request is outstanding.
C31_AnalyzingWhileInFlight == requests # <<>> => isAnalyzing

-----------------------------------------------------------------------------
(* Statements about the recording indicator.                               *)

\* C32: in the recording-indicator revision, isRecording is true exactly
\* when the current session exists and is active, in every state reached by
\* START, DATA, END, disconnect and clear-all-data events.
C32_RecordingIffActive == isRecording <=> IsActive(currentSession)

-----------------------------------------------------------------------------
(* Statements about clearAllData.                                          *)

\* C33: clear-all-data discards the recorded samples: no sample received
\* before the clear is part of a later inference submission or of a later
\* summary, which hold samples received since the clear only.
C33_ClearedSamplesGone ==
    [][ /\ Len(requests') > Len(requests)
            => LET apiData == requests'[Len(requests')]
                   received == Readings(convertBLEDataToAPI(
                                            Samples(stream.sinceClear), "", 0))
               IN  /\ Len(apiData) <= Len(stream.sinceClear)
                   /\ \A k \in 1..Len(apiData) :
                         \E j \in 1..Len(received) : Readings(apiData)[k] = received[j]
        /\ (Arrives /\ stream'.last.type = END /\ out'.alerts[1].analysis # Null)
            => out'.alerts[1].analysis[1].totalSamples <= Len(stream'.sinceClear) ]_vars

\* C34: clear-all-data leaves the connection and the notification stream
\* untouched: the device that was connected stays connected and the
\* notifications that were delivered to the handler keep being delivered.
C34_ClearKeepsStream ==
    [][ stream'.last.kind = "clear"
            => /\ connectedDevice' = connectedDevice
               /\ monitoring' = monitoring ]_vars

-----------------------------------------------------------------------------
(* Statements about connecting.                                            *)

\* C35: whenever the connection status is 'Connection Failed', no device is
\* recorded as connected, at whatever step connectToDevice failed: connect
\* timeout, service discovery, missing service or missing characteristic.
C35_FailedMeansNoDevice ==
    connectionStatus = "Connection Failed" => connectedDevice = Null

-----------------------------------------------------------------------------
(* Properties of the scan timeout.                                         *)

\* C36: once the callback of the scan timeout has run, the device scan has
\* been stopped and isScanning is false
C36_TimeoutStopsScan ==
    [][ stream'.last.kind = "scan timeout" => ~deviceScan' /\ ~isScanning' ]_vars

-----------------------------------------------------------------------------
(* Properties of the records sent for inference.                           *)

\* C37: every record of a submission carries its sample's own values:
\* rel_timestamp is the sample's timestamp, the six acc and gyro fields are
\* the sample's components, at every index, and all records share the
\* recording_id g_<wall clock>_<hex id of the recording>
C37_RecordsCarrySamples ==
    [][ Len(requests') > Len(requests)
            => LET apiData == requests'[Len(requests')]
                   id == "g_" \o ToString10(now) \o "_" \o sessionData[1].recordingHash
               IN  /\ Len(apiData) = Len(sessionData)
                   /\ \A k \in 1..Len(apiData) :
                         /\ apiData[k].rel_timestamp = sessionData[k].timestamp
                         /\ apiData[k].acc_x = sessionData[k].acceleration.x
                         /\ apiData[k].acc_y = sessionData[k].acceleration.y
                         /\ apiData[k].acc_z = sessionData[k].acceleration.z
                         /\ apiData[k].gyro_x = sessionData[k].gyroscope.x
                         /\ apiData[k].gyro_y = sessionData[k].gyroscope.y
                         /\ apiData[k].gyro_z = sessionData[k].gyroscope.z
                         /\ apiData[k].recording_id = id ]_vars

-----------------------------------------------------------------------------
(* Properties of the real-time graph buffer.                               *)

\* the readings of a decoded SENSOR_DATA packet that a graph point shows
Shown(pk) == <<pk.accX, pk.accY, pk.accZ, pk.gyroX, pk.gyroY, pk.gyroZ>>

\* C38: the graph buffer holds at most 50 points, and they are the most
\* recent SENSOR_DATA packets in the order of their arrival
C38_GraphBufferBounded ==
    LET sent == stream.sinceClear
        held == Len(realtimeData)
    IN  /\ held <= 50
        /\ held = IF Len(sent) < 50 THEN Len(sent) ELSE 50
        /\ \A k \in 1..held :
              LET pk == ParsePacket(sent[Len(sent) - held + k])
                  point == realtimeData[k]
              IN  Shown(pk) = <<point.accX, point.accY, point.accZ,
                                point.gyroX, point.gyroY, point.gyroZ>>

\* more samples have arrived than the graph holds
C38_Witness == Len(stream.sinceClear) > 50 /\ Len(realtimeData) = 50

-----------------------------------------------------------------------------
(* Properties of checkBluetoothState.                                      *)

\* a call of checkBluetoothState is under way
Checking == bluetoothCheck.pc \in {"query", "wait"}

\* the call has returned
Returned == bluetoothCheck.pc = "done"

\* C39: every call of checkBluetoothState returns, whatever states and
\* errors its queries meet; it queries the adapter at most 4 times, asking
\* again only after 'Unknown' with retryCount < 3 or after an error with
\* retryCount < 2, and it returns true only when a query returned 'PoweredOn'
C39_CheckTerminates ==
    /\ Checking ~> Returned
    /\ [](bluetoothCheck.queries <= 4)
    /\ []( bluetoothCheck.pc = "wait"
             => LET answer == bluetoothCheck.answers[Len(bluetoothCheck.answers)]
                IN  \/ answer = "Unknown" /\ bluetoothCheck.retryCount < 3
                    \/ answer = "error" /\ bluetoothCheck.retryCount < 2 )
    /\ []( Returned /\ bluetoothCheck.result
             => \E k \in 1..Len(bluetoothCheck.answers) :
                   bluetoothCheck.answers[k] = "PoweredOn" )

\* the call has returned after its fourth query
C39_Witness == Returned /\ bluetoothCheck.queries = 4

====
